---- MODULE Spec2Model ----
(***************************************************************************)
(* OptiPricer / OptiVerse: Black-Scholes pricing model, Greeks calculator  *)
(* and options strategies.                                                 *)
(*                                                                         *)
(* The repository ships the model and the calculator twice: namespace      *)
(* optipricer (include/optipricer) and namespace optiverse                 *)
(* (include/optiverse).  The strategies header under src/ is the optiverse *)
(* one.  Both families are modelled; an object carries its namespace in    *)
(* the field ns.                                                           *)
(*                                                                         *)
(* A C++ double is modelled as a decimal floating-point number with four   *)
(* significant digits, round-half-even, the binary64 exponent range, two   *)
(* infinities and NaN (the sign of zero is not kept).                      *)
(***************************************************************************)
EXTENDS Integers, Sequences, FiniteSets, TLC

\* ------------------------------------------------------------------------
\* double
\* ------------------------------------------------------------------------
Abs(n) == IF n < 0 THEN -n ELSE n

Sgn(n) == IF n < 0 THEN -1 ELSE IF n > 0 THEN 1 ELSE 0

RECURSIVE Pow10(_)
Pow10(k) == IF k <= 0 THEN 1 ELSE 10 * Pow10(k - 1)

RECURSIVE NumDigits(_)
NumDigits(n) == IF n < 10 THEN 1 ELSE 1 + NumDigits(n \div 10)

NaN == [c |-> "nan", m |-> 0, e |-> 0]

Inf(s) == [c |-> "inf", m |-> s, e |-> 0]

Zero == [c |-> "fin", m |-> 0, e |-> 0]

\* n >= 0 divided by the power of ten p, rounded half to even
RoundOff(n, p) ==
    IF (n % p) * 2 > p \/ ((n % p) * 2 = p /\ (n \div p) % 2 = 1)
    THEN n \div p + 1
    ELSE n \div p

\* s * q * 10^x in the binary64 range: overflow gives an infinity, underflow
\* zero; a q that rounding carried to 10000 is renormalised
Ranged(s, q, x) ==
    IF q >= 10000
    THEN (IF x + 4 > 308 THEN Inf(s)
          ELSE IF x + 4 < -323 THEN Zero
          ELSE [c |-> "fin", m |-> s * 1000, e |-> x + 1])
    ELSE (IF x + 3 > 308 \/ (x + 3 = 308 /\ q > 1797) THEN Inf(s)
          ELSE IF x + 3 < -323 THEN Zero
          ELSE [c |-> "fin", m |-> s * q, e |-> x])

\* s * a * 10^e, a > 0 having d + 4 digits, rounded to four digits
Scaled(s, a, d, e) ==
    Ranged(s, IF d > 0 THEN RoundOff(a, Pow10(d)) ELSE a * Pow10(-d), e + d)

\* the double nearest to m * 10^e
Fin(m, e) ==
    IF m = 0 THEN Zero
    ELSE Scaled(IF m < 0 THEN -1 ELSE 1, IF m < 0 THEN -m ELSE m,
                NumDigits(IF m < 0 THEN -m ELSE m) - 4, e)

\* a literal whole number
D(n) == Fin(n, 0)

std_isnan(a) == a.c = "nan"

std_isinf(a) == a.c = "inf"

IsFinite(a) == a.c = "fin"

\* operator< on doubles: every comparison with NaN is false
Less(a, b) ==
    IF a.c = "nan" \/ b.c = "nan" THEN FALSE
    ELSE IF a.c = "inf" THEN a.m < 0 /\ ~(b.c = "inf" /\ b.m < 0)
    ELSE IF b.c = "inf" THEN b.m > 0
    ELSE IF (a.m < 0) # (b.m < 0) \/ (a.m > 0) # (b.m > 0) THEN a.m < b.m
    ELSE IF a.m = 0 THEN FALSE
    ELSE IF a.e = b.e THEN a.m < b.m
    ELSE IF a.m > 0 THEN a.e < b.e ELSE a.e > b.e

\* operator== on doubles: NaN equals nothing, itself included
Equal(a, b) == a.c # "nan" /\ b.c # "nan" /\ a = b

LessEq(a, b) == Less(a, b) \/ Equal(a, b)

Greater(a, b) == Less(b, a)

GreaterEq(a, b) == LessEq(b, a)

Neg(a) == IF a.c = "nan" THEN NaN ELSE [a EXCEPT !.m = -a.m]

\* hi + lo for finite non-zero operands, hi.e >= lo.e
AddAligned(hi, lo) ==
    IF hi.e - lo.e > 5 THEN hi
    ELSE Fin(hi.m * Pow10(hi.e - lo.e) + lo.m, lo.e)

Add(a, b) ==
    IF a.c = "nan" \/ b.c = "nan" THEN NaN
    ELSE IF a.c = "inf" THEN (IF b.c = "inf" /\ b.m # a.m THEN NaN ELSE a)
    ELSE IF b.c = "inf" THEN b
    ELSE IF a.m = 0 THEN b
    ELSE IF b.m = 0 THEN a
    ELSE AddAligned(IF a.e >= b.e THEN a ELSE b, IF a.e >= b.e THEN b ELSE a)

Sub(a, b) == Add(a, Neg(b))

Mul(a, b) ==
    IF a.c = "nan" \/ b.c = "nan" THEN NaN
    ELSE IF a.c = "inf" \/ b.c = "inf"
         THEN (IF a.m = 0 \/ b.m = 0 THEN NaN
               ELSE Inf(IF (a.m < 0) = (b.m < 0) THEN 1 ELSE -1))
    ELSE Fin(a.m * b.m, a.e + b.e)

\* s * (n / den) * 10^e with a sticky last digit for the rounding
DivDigits(s, n, den, e) ==
    Fin(s * (IF n % den # 0 /\ (n \div den) % 10 \in {0, 5}
             THEN n \div den + 1
             ELSE n \div den),
        e)

Div(a, b) ==
    IF a.c = "nan" \/ b.c = "nan" THEN NaN
    ELSE IF a.c = "inf"
         THEN (IF b.c = "inf" THEN NaN
               ELSE Inf(IF b.m < 0 THEN -a.m ELSE a.m))
    ELSE IF b.c = "inf" THEN Zero
    ELSE IF b.m = 0
         THEN (IF a.m = 0 THEN NaN ELSE Inf(IF a.m < 0 THEN -1 ELSE 1))
    ELSE IF a.m = 0 THEN Zero
    ELSE DivDigits(IF (a.m < 0) = (b.m < 0) THEN 1 ELSE -1,
                   (IF a.m < 0 THEN -a.m ELSE a.m) * 100000,
                   IF b.m < 0 THEN -b.m ELSE b.m,
                   a.e - b.e - 5)

\* std::max(a, b) is (a < b) ? b : a
std_max(a, b) == IF Less(a, b) THEN b ELSE a

RECURSIVE ISqrtIter(_, _, _)
ISqrtIter(n, lo, hi) ==
    IF lo >= hi THEN lo
    ELSE IF ((lo + hi + 1) \div 2) * ((lo + hi + 1) \div 2) <= n
    THEN ISqrtIter(n, (lo + hi + 1) \div 2, hi)
    ELSE ISqrtIter(n, lo, (lo + hi + 1) \div 2 - 1)

\* the root q of n with a sticky last digit, times 10^((x - 4) / 2)
SqrtDigits(n, q, x) ==
    Fin(IF q * q # n /\ q % 10 \in {0, 5} THEN q + 1 ELSE q, (x - 4) \div 2)

\* std::sqrt: NaN for a negative argument
std_sqrt(a) ==
    IF a.c = "nan" THEN NaN
    ELSE IF a.c = "inf" THEN (IF a.m > 0 THEN a ELSE NaN)
    ELSE IF a.m < 0 THEN NaN
    ELSE IF a.m = 0 THEN Zero
    ELSE SqrtDigits(
             IF a.e % 2 # 0 THEN a.m * 100000 ELSE a.m * 10000,
             ISqrtIter(IF a.e % 2 # 0 THEN a.m * 100000 ELSE a.m * 10000,
                       0, 46340),
             IF a.e % 2 # 0 THEN a.e - 1 ELSE a.e)

\* a finite double of magnitude below 1000 as an integer count of 1/10000
ToFixed(a) ==
    IF a.m = 0 THEN 0
    ELSE IF a.e + 4 >= 0 THEN a.m * Pow10(a.e + 4)
    ELSE IF a.e + 4 < -4 THEN 0
    ELSE IF a.m < 0 THEN -((-a.m) \div Pow10(-(a.e + 4)))
    ELSE a.m \div Pow10(-(a.e + 4))

\* term * f / (n * 10000), truncated toward zero
ExpTerm(f, n, term) ==
    IF (term < 0) # (f < 0)
    THEN -((Abs(term) * Abs(f)) \div (n * 10000))
    ELSE (Abs(term) * Abs(f)) \div (n * 10000)

RECURSIVE ExpSeries(_, _, _, _)
ExpSeries(f, n, term, acc) ==
    IF n > 12 \/ term = 0 THEN acc
    ELSE ExpSeries(f, n + 1, ExpTerm(f, n, term), acc + ExpTerm(f, n, term))

\* e^x = 10^k * e^(x - k ln 10), x in 1/10000
ExpDigits(x, k) ==
    Fin(ExpSeries(x - (IF k >= 0 THEN (k * 2302585) \div 100
                       ELSE -(((-k) * 2302585) \div 100)),
                  1, 10000, 10000),
        k - 4)

\* std::exp: +inf above about 709.78, 0 below about -745.1
std_exp(a) ==
    IF a.c = "nan" THEN NaN
    ELSE IF a.c = "inf" THEN (IF a.m > 0 THEN a ELSE Zero)
    ELSE IF Less(Fin(7098, -1), a) THEN Inf(1)
    ELSE IF Less(a, Fin(-7451, -1)) THEN Zero
    ELSE ExpDigits(ToFixed(a), (2 * ToFixed(a) + 23026) \div 46052)

\* pw * z2 / 10000, truncated toward zero (z2 >= 0)
LogPower(z2, pw) ==
    IF pw < 0 THEN -(((-pw) * z2) \div 10000) ELSE (pw * z2) \div 10000

\* p / k, truncated toward zero
LogTerm(p, k) == IF p < 0 THEN -((-p) \div k) ELSE p \div k

RECURSIVE LogSeries(_, _, _, _)
LogSeries(z2, k, pw, acc) ==
    IF k > 15 \/ pw = 0 THEN acc
    ELSE LogSeries(z2, k + 2, LogPower(z2, pw),
                   acc + LogTerm(LogPower(z2, pw), k + 2))

\* ln(y / 10000 * 10^x) = 2 atanh(z) + x ln 10, z = (y - 10000) / (y + 10000)
LogDigits(z, x) ==
    Fin(2 * LogSeries((z * z) \div 10000, 1, z, z)
        + (IF x >= 0 THEN (x * 2302585) \div 100
           ELSE -(((-x) * 2302585) \div 100)),
        -4)

LogReduced(y, x) ==
    LogDigits(IF y < 10000 THEN -(((10000 - y) * 10000) \div (y + 10000))
              ELSE ((y - 10000) * 10000) \div (y + 10000),
              x)

\* std::log: -inf at 0, NaN for a negative argument
std_log(a) ==
    IF a.c = "nan" THEN NaN
    ELSE IF a.c = "inf" THEN (IF a.m > 0 THEN a ELSE NaN)
    ELSE IF a.m < 0 THEN NaN
    ELSE IF a.m = 0 THEN Inf(-1)
    ELSE LogReduced(IF a.m > 3162 THEN a.m ELSE a.m * 10,
                    IF a.m > 3162 THEN a.e + 4 ELSE a.e + 3)

\* 10000 * erf(0.05 k) for k = 0 .. 61
ErfTable ==
    <<0, 564, 1125, 1680, 2227, 2763, 3286, 3794, 4284, 4755, 5205, 5633,
      6039, 6420, 6778, 7112, 7421, 7707, 7969, 8209, 8427, 8624, 8802, 8961,
      9103, 9229, 9340, 9438, 9523, 9597, 9661, 9716, 9763, 9804, 9838, 9867,
      9891, 9911, 9928, 9942, 9953, 9963, 9970, 9976, 9981, 9985, 9989, 9991,
      9993, 9995, 9996, 9997, 9998, 9998, 9999, 9999, 9999, 9999, 10000,
      10000, 10000, 10000>>

\* erf between two entries of the table, x in 1/10000
ErfInterpolate(x) ==
    Fin(ErfTable[x \div 500 + 1]
        + ((ErfTable[x \div 500 + 2] - ErfTable[x \div 500 + 1]) * (x % 500))
          \div 500,
        -4)

\* erf of a positive double: 2 x / sqrt(pi) near zero, 1 from 3 on
ErfPositive(ax) ==
    IF Less(ax, Fin(5, -2)) THEN Mul(ax, Fin(1128, -3))
    ELSE IF LessEq(D(3), ax) THEN D(1)
    ELSE ErfInterpolate(ToFixed(ax))

\* std::erf: odd, erf(0) = 0, saturating to -1 and 1
std_erf(a) ==
    IF a.c = "nan" THEN NaN
    ELSE IF a.c = "inf" THEN D(a.m)
    ELSE IF a.m = 0 THEN Zero
    ELSE IF a.m < 0 THEN Neg(ErfPositive(Neg(a)))
    ELSE ErfPositive(a)

\* ------------------------------------------------------------------------
\* outcomes of a call: a returned double or a thrown exception
\* ------------------------------------------------------------------------
NoValue == [c |-> "none", m |-> 0, e |-> 0]

NoExc == [type |-> "none", what |-> << >>, got |-> << >>]

\* std::invalid_argument(msg + std::to_string(x)); got holds the formatted number
invalid_argument(msg, got) ==
    [type |-> "invalid_argument", what |-> <<msg>>, got |-> got]

\* std::runtime_error(what)
runtime_error(what, got) ==
    [type |-> "runtime_error", what |-> what, got |-> got]

Ret(v) == [threw |-> FALSE, value |-> v, ex |-> NoExc]

Throw(x) == [threw |-> TRUE, value |-> NoValue, ex |-> x]

\* ------------------------------------------------------------------------
\* utils.hpp and the free functions of namespace optiverse
\* ------------------------------------------------------------------------
DAYS_PER_YEAR == D(365)

PERCENTAGE_DIVISOR == D(100)

SQRT_2PI == Fin(2507, -3)

M_PI == Fin(3142, -3)

norm_cdf(x) ==
    Mul(Fin(5, -1), Add(D(1), std_erf(Div(x, std_sqrt(D(2))))))

norm_pdf(x) ==
    Mul(Div(D(1), SQRT_2PI), std_exp(Mul(Mul(Fin(-5, -1), x), x)))

optiverse_norm_pdf(x) ==
    Mul(Div(D(1), std_sqrt(Mul(D(2), M_PI))),
        std_exp(Mul(Mul(Fin(-5, -1), x), x)))

\* ------------------------------------------------------------------------
\* BlackScholesModel
\* ------------------------------------------------------------------------
\* an initialiser list that crosses time_to_maturity and underlying_price
FieldsCrossed(ns, K, sigma, r, T, S) ==
    [ns |-> ns, strike_price |-> K, volatility |-> sigma,
     risk_free_rate |-> r, time_to_maturity |-> S, underlying_price |-> T]

Fields(ns, K, sigma, r, T, S) ==
    [ns |-> ns, strike_price |-> K, volatility |-> sigma,
     risk_free_rate |-> r, time_to_maturity |-> T, underlying_price |-> S]

validate_inputs(m) ==
    IF LessEq(m.strike_price, Zero)
    THEN invalid_argument("Strike price must be positive, got: ",
                          <<m.strike_price>>)
    ELSE IF Less(m.volatility, Zero)
    THEN invalid_argument("Volatility must be non-negative, got: ",
                          <<m.volatility>>)
    ELSE IF Greater(m.volatility, D(10))
    THEN invalid_argument("Volatility seems unreasonably high (>1000%), got: ",
                          <<m.volatility>>)
    ELSE IF LessEq(m.time_to_maturity, Zero)
    THEN invalid_argument("Time to maturity must be positive, got: ",
                          <<m.time_to_maturity>>)
    ELSE IF Greater(m.time_to_maturity, D(100))
    THEN invalid_argument(
             "Time to maturity seems unreasonably high (>100 years), got: ",
             <<m.time_to_maturity>>)
    ELSE IF LessEq(m.underlying_price, Zero)
    THEN invalid_argument("Underlying price must be positive, got: ",
                          <<m.underlying_price>>)
    ELSE IF std_isnan(m.strike_price) \/ std_isnan(m.volatility)
            \/ std_isnan(m.risk_free_rate) \/ std_isnan(m.time_to_maturity)
            \/ std_isnan(m.underlying_price)
    THEN invalid_argument("Input parameters cannot be NaN", << >>)
    ELSE IF std_isinf(m.strike_price) \/ std_isinf(m.volatility)
            \/ std_isinf(m.risk_free_rate) \/ std_isinf(m.time_to_maturity)
            \/ std_isinf(m.underlying_price)
    THEN invalid_argument("Input parameters cannot be infinite", << >>)
    ELSE NoExc

\* a constructor's outcome: the object, or the exception that left none
Built(m) == [threw |-> FALSE, obj |-> m, ex |-> NoExc]

NotBuilt(x) == [threw |-> TRUE, obj |-> Fields("none", NoValue, NoValue,
                                                NoValue, NoValue, NoValue),
                ex |-> x]

\* validate_inputs() in the constructor's body: its exception leaves no object
Validated(m, x) == IF x.type # "none" THEN NotBuilt(x) ELSE Built(m)

optipricer_BlackScholesModel(K, sigma, r, T, S) ==
    Validated(Fields("optipricer", K, sigma, r, T, S),
              validate_inputs(Fields("optipricer", K, sigma, r, T, S)))

optiverse_BlackScholesModel(K, sigma, r, T, S) ==
    Built(Fields("optiverse", K, sigma, r, T, S))

BlackScholesModel(ns, K, sigma, r, T, S) ==
    IF ns = "optipricer" THEN optipricer_BlackScholesModel(K, sigma, r, T, S)
    ELSE optiverse_BlackScholesModel(K, sigma, r, T, S)

\* the floor 1e-10 of d1()
DegenerateFloor == Fin(1, -10)

DegenerateError ==
    runtime_error(<<"Volatility or time to maturity too small for accurate Black-Scholes calculation">>,
                  << >>)

DiscountFactorError ==
    runtime_error(<<"Discount factor calculation resulted in invalid value">>,
                  << >>)

\* (ln(S/K) + (r + 0.5 sigma^2) T) / den
D1Formula(m, den) ==
    Div(Add(std_log(Div(m.underlying_price, m.strike_price)),
            Mul(Add(m.risk_free_rate,
                    Mul(Mul(Fin(5, -1), m.volatility), m.volatility)),
                m.time_to_maturity)),
        den)

optipricer_d1(m) ==
    IF Less(m.volatility, DegenerateFloor)
       \/ Less(m.time_to_maturity, DegenerateFloor)
    THEN Throw(DegenerateError)
    ELSE Ret(D1Formula(m, Mul(m.volatility, std_sqrt(m.time_to_maturity))))

optiverse_d1(m) ==
    Ret(D1Formula(m, Mul(m.volatility, std_sqrt(m.time_to_maturity))))

d1(m) == IF m.ns = "optipricer" THEN optipricer_d1(m) ELSE optiverse_d1(m)

\* a - volatility * std::sqrt(time_to_maturity) once d1() has returned a
D2Formula(m, a) ==
    IF a.threw THEN a
    ELSE Ret(Sub(a.value, Mul(m.volatility, std_sqrt(m.time_to_maturity))))

\* d1() - volatility * std::sqrt(time_to_maturity), in both namespaces
d2(m) == D2Formula(m, d1(m))

\* std::exp(-risk_free_rate * time_to_maturity)
discount(m) == std_exp(Mul(Neg(m.risk_free_rate), m.time_to_maturity))

CallFormula(m, D1, D2, df) ==
    Sub(Mul(m.underlying_price, norm_cdf(D1)),
        Mul(Mul(m.strike_price, df), norm_cdf(D2)))

PutFormula(m, D1, D2, df) ==
    Sub(Mul(Mul(m.strike_price, df), norm_cdf(Neg(D2))),
        Mul(m.underlying_price, norm_cdf(Neg(D1))))

\* catch (const std::exception &e) { throw std::runtime_error(prefix + e.what()); }
Rethrow(prefix, x) == Throw(runtime_error(<<prefix>> \o x.what, x.got))

\* the try block of call_price() / put_price() once d1(), d2() and the
\* discount factor are evaluated
optipricer_price_body(m, opt_type, a, b, discount_factor) ==
    IF a.threw THEN a
    ELSE IF b.threw THEN b
    ELSE IF std_isinf(discount_factor) \/ std_isnan(discount_factor)
    THEN Throw(DiscountFactorError)
    ELSE IF opt_type = "CALL"
    THEN Ret(CallFormula(m, a.value, b.value, discount_factor))
    ELSE Ret(PutFormula(m, a.value, b.value, discount_factor))

\* the try / catch around the body
optipricer_price_try(prefix, t) ==
    IF t.threw THEN Rethrow(prefix, t.ex) ELSE t

optipricer_call_price(m) ==
    optipricer_price_try(
        "Error calculating call price: ",
        optipricer_price_body(m, "CALL", d1(m), d2(m), discount(m)))

optipricer_put_price(m) ==
    optipricer_price_try(
        "Error calculating put price: ",
        optipricer_price_body(m, "PUT", d1(m), d2(m), discount(m)))

\* the one return statement of the optiverse prices, nothing in it throws
optiverse_price(m, opt_type, a, b) ==
    IF a.threw THEN a
    ELSE IF b.threw THEN b
    ELSE IF opt_type = "CALL"
    THEN Ret(CallFormula(m, a.value, b.value, discount(m)))
    ELSE Ret(PutFormula(m, a.value, b.value, discount(m)))

optiverse_call_price(m) == optiverse_price(m, "CALL", d1(m), d2(m))

optiverse_put_price(m) == optiverse_price(m, "PUT", d1(m), d2(m))

call_price(m) ==
    IF m.ns = "optipricer" THEN optipricer_call_price(m)
    ELSE optiverse_call_price(m)

put_price(m) ==
    IF m.ns = "optipricer" THEN optipricer_put_price(m)
    ELSE optiverse_put_price(m)

get_strike_price(m) == m.strike_price

get_volatility(m) == m.volatility

get_risk_free_rate(m) == m.risk_free_rate

get_time_to_maturity(m) == m.time_to_maturity

get_underlying_price(m) == m.underlying_price

\* ------------------------------------------------------------------------
\* GreeksCalculator
\* ------------------------------------------------------------------------
\* what the member `model` holds when it is a reference
Reference == Fields("ref", NoValue, NoValue, NoValue, NoValue, NoValue)

\* BlackScholesModel model: a copy of the argument
optipricer_GreeksCalculator(bs_model) ==
    [ns |-> "optipricer", model |-> bs_model]

\* const BlackScholesModel& model: bound to the argument
optiverse_GreeksCalculator(bs_model) ==
    [ns |-> "optiverse", model |-> Reference]

GreeksCalculator(bs_model) ==
    IF bs_model.ns = "optipricer" THEN optipricer_GreeksCalculator(bs_model)
    ELSE optiverse_GreeksCalculator(bs_model)

\* the object the member `model` designates while its referent is alive
Deref(g, referent) == IF g.model = Reference THEN referent ELSE g.model

\* utils::norm_pdf in optipricer, optiverse::norm_pdf in optiverse
pdf(m, x) == IF m.ns = "optipricer" THEN norm_pdf(x) ELSE optiverse_norm_pdf(x)

\* the Greeks, each over the model m that the member `model` designates;
\* an exception of d1() or d2() leaves the Greek by propagation
Propagate(a, v) == IF a.threw THEN a ELSE Ret(v)

call_delta(m) == Propagate(d1(m), norm_cdf(d1(m).value))

put_delta(m) == Propagate(d1(m), Sub(norm_cdf(d1(m).value), D(1)))

GammaFormula(m, S, sigma, T, a) ==
    Propagate(a, Div(pdf(m, a.value), Mul(Mul(S, sigma), std_sqrt(T))))

gamma(m) ==
    GammaFormula(m, get_underlying_price(m), get_volatility(m),
                 get_time_to_maturity(m), d1(m))

VegaFormula(m, S, T, a) ==
    Propagate(a, Div(Mul(Mul(S, pdf(m, a.value)), std_sqrt(T)),
                     PERCENTAGE_DIVISOR))

vega(m) ==
    VegaFormula(m, get_underlying_price(m), get_time_to_maturity(m), d1(m))

\* -(S * pdf(d1) * sigma) / (2 * sqrt(T))
ThetaTerm1(m, D1) ==
    Div(Neg(Mul(Mul(get_underlying_price(m), pdf(m, D1)), get_volatility(m))),
        Mul(D(2), std_sqrt(get_time_to_maturity(m))))

\* r * K * std::exp(-r * T) * cdf
ThetaTerm2(m, r, cdf) ==
    Mul(Mul(Mul(r, get_strike_price(m)),
            std_exp(Mul(Neg(get_risk_free_rate(m)), get_time_to_maturity(m)))),
        cdf)

\* (term1 + term2) / DAYS_PER_YEAR, term2 signed by the option type
ThetaFormula(m, opt_type, a, b) ==
    IF a.threw THEN a
    ELSE IF b.threw THEN b
    ELSE IF opt_type = "CALL"
    THEN Ret(Div(Add(ThetaTerm1(m, a.value),
                     ThetaTerm2(m, Neg(get_risk_free_rate(m)),
                                norm_cdf(b.value))),
                 DAYS_PER_YEAR))
    ELSE Ret(Div(Add(ThetaTerm1(m, a.value),
                     ThetaTerm2(m, get_risk_free_rate(m),
                                norm_cdf(Neg(b.value)))),
                 DAYS_PER_YEAR))

call_theta(m) == ThetaFormula(m, "CALL", d1(m), d2(m))

put_theta(m) == ThetaFormula(m, "PUT", d1(m), d2(m))

\* K * T * std::exp(-r * T) * cdf / 100
RhoFormula(m, K, cdf) ==
    Div(Mul(Mul(Mul(K, get_time_to_maturity(m)),
                std_exp(Mul(Neg(get_risk_free_rate(m)),
                            get_time_to_maturity(m)))),
            cdf),
        PERCENTAGE_DIVISOR)

CallRho(m, b) ==
    Propagate(b, RhoFormula(m, get_strike_price(m), norm_cdf(b.value)))

call_rho(m) == CallRho(m, d2(m))

PutRho(m, b) ==
    Propagate(b, RhoFormula(m, Neg(get_strike_price(m)),
                            norm_cdf(Neg(b.value))))

put_rho(m) == PutRho(m, d2(m))

\* ------------------------------------------------------------------------
\* strategies (namespace optiverse::strategies)
\* ------------------------------------------------------------------------
Position(opt_type, pos_type, qty, K) ==
    [option_type |-> opt_type, position_type |-> pos_type,
     quantity |-> qty, strike |-> K]

OptionsStrategy(S, sigma, r, T, name) ==
    [positions |-> << >>, underlying_price |-> S, volatility |-> sigma,
     risk_free_rate |-> r, time_to_maturity |-> T, strategy_name |-> name]

\* an add_position that puts the new leg in front of the others
add_position_front(st, opt_type, pos_type, qty, strike) ==
    [st EXCEPT !.positions = <<Position(opt_type, pos_type, qty, strike)>> \o @]

add_position(st, opt_type, pos_type, qty, strike) ==
    [st EXCEPT !.positions = Append(@, Position(opt_type, pos_type, qty, strike))]

\* a query's outcome with the number of BlackScholesModel objects it built
QRet(v, n) == [threw |-> FALSE, value |-> v, ex |-> NoExc, built |-> n]

QThrow(x, n) == [threw |-> TRUE, value |-> NoValue, ex |-> x, built |-> n]

\* a contribution whose sign is the sign of the quantity alone
SignedByQuantity(pos, value) == Mul(value, pos.quantity)

\* a contribution that leaves the quantity out
SignedUnit(pos, value) ==
    IF pos.position_type = "LONG" THEN value ELSE Neg(value)

\* total += LONG ? value * quantity : -value * quantity
Signed(pos, value) ==
    IF pos.position_type = "LONG" THEN Mul(value, pos.quantity)
    ELSE Mul(Neg(value), pos.quantity)

\* the model total_value() and total_delta() build for a leg
LegModel(st, pos) ==
    optiverse_BlackScholesModel(pos.strike, st.volatility, st.risk_free_rate,
                                st.time_to_maturity, st.underlying_price)

\* BlackScholesModel::call_price() or put_price() by the leg's option type
LegValue(pos, model) ==
    IF model.threw THEN Throw(model.ex)
    ELSE IF pos.option_type = "CALL" THEN optiverse_call_price(model.obj)
    ELSE optiverse_put_price(model.obj)

RECURSIVE total_value_from(_, _, _)
\* the body of the loop once the leg is priced
total_value_leg(st, i, total, pos, value) ==
    IF value.threw THEN QThrow(value.ex, i)
    ELSE total_value_from(st, i + 1, Add(total, Signed(pos, value.value)))

total_value_from(st, i, total) ==
    IF i > Len(st.positions) THEN QRet(total, i - 1)
    ELSE total_value_leg(st, i, total, st.positions[i],
                         LegValue(st.positions[i],
                                  LegModel(st, st.positions[i])))

total_value(st) == total_value_from(st, 1, Zero)

\* GreeksCalculator greeks(model); greeks.call_delta() or put_delta()
LegDelta(pos, model, greeks) ==
    IF model.threw THEN Throw(model.ex)
    ELSE IF pos.option_type = "CALL"
    THEN call_delta(Deref(greeks, model.obj))
    ELSE put_delta(Deref(greeks, model.obj))

RECURSIVE total_delta_from(_, _, _)
\* the body of the loop once the leg's delta is computed
total_delta_leg(st, i, total, pos, delta) ==
    IF delta.threw THEN QThrow(delta.ex, i)
    ELSE total_delta_from(st, i + 1, Add(total, Signed(pos, delta.value)))

total_delta_from(st, i, total) ==
    IF i > Len(st.positions) THEN QRet(total, i - 1)
    ELSE total_delta_leg(
             st, i, total, st.positions[i],
             LegDelta(st.positions[i], LegModel(st, st.positions[i]),
                      optiverse_GreeksCalculator(
                          LegModel(st, st.positions[i]).obj)))

\* a delta averaged over the legs instead of summed
total_delta_mean(st) ==
    [total_delta_from(st, 1, Zero) EXCEPT
        !.value = Div(@, D(Len(st.positions)))]

total_delta(st) == total_delta_from(st, 1, Zero)

\* an intrinsic value without the floor at zero
IntrinsicNoFloor(pos, S_T) ==
    IF pos.option_type = "CALL" THEN Sub(S_T, pos.strike)
    ELSE Sub(pos.strike, S_T)

Intrinsic(pos, S_T) ==
    IF pos.option_type = "CALL" THEN std_max(Sub(S_T, pos.strike), Zero)
    ELSE std_max(Sub(pos.strike, S_T), Zero)

RECURSIVE payoff_from(_, _, _, _)
payoff_from(st, S_T, i, total) ==
    IF i > Len(st.positions) THEN QRet(total, 0)
    ELSE payoff_from(st, S_T, i + 1,
                     Add(total, Signed(st.positions[i],
                                       Intrinsic(st.positions[i], S_T))))

\* a payoff that first builds a validated model for every leg, as a
\* valuation would
RECURSIVE payoff_through_model_from(_, _, _)
payoff_through_model_from(st, S_T, i) ==
    IF i > Len(st.positions)
    THEN [payoff_from(st, S_T, 1, Zero) EXCEPT !.built = Len(st.positions)]
    ELSE IF optipricer_BlackScholesModel(
                st.positions[i].strike, st.volatility, st.risk_free_rate,
                st.time_to_maturity, S_T).threw
    THEN QThrow(optipricer_BlackScholesModel(
                    st.positions[i].strike, st.volatility, st.risk_free_rate,
                    st.time_to_maturity, S_T).ex,
                i - 1)
    ELSE payoff_through_model_from(st, S_T, i + 1)

payoff_through_model(st, S_T) == payoff_through_model_from(st, S_T, 1)

payoff_at_expiration(st, S_T) == payoff_from(st, S_T, 1, Zero)

get_positions(st) == st.positions

get_name(st) == st.strategy_name

\* a strategy constructor's outcome
SBuilt(st) == [threw |-> FALSE, obj |-> st, ex |-> NoExc]

NoStrategy == OptionsStrategy(NoValue, NoValue, NoValue, NoValue, "")

SNotBuilt(x) == [threw |-> TRUE, obj |-> NoStrategy, ex |-> x]

LongCall(S, sigma, r, T, K, qty) ==
    SBuilt(add_position(OptionsStrategy(S, sigma, r, T, "Long Call"),
                        "CALL", "LONG", qty, K))

ShortCall(S, sigma, r, T, K, qty) ==
    SBuilt(add_position(OptionsStrategy(S, sigma, r, T, "Short Call"),
                        "CALL", "SHORT", qty, K))

LongPut(S, sigma, r, T, K, qty) ==
    SBuilt(add_position(OptionsStrategy(S, sigma, r, T, "Long Put"),
                        "PUT", "LONG", qty, K))

ShortPut(S, sigma, r, T, K, qty) ==
    SBuilt(add_position(OptionsStrategy(S, sigma, r, T, "Short Put"),
                        "PUT", "SHORT", qty, K))

\* a straddle whose put leg comes first
LongStraddlePutFirst(S, sigma, r, T, K, qty) ==
    SBuilt(add_position(
               add_position(OptionsStrategy(S, sigma, r, T, "Long Straddle"),
                            "PUT", "LONG", qty, K),
               "CALL", "LONG", qty, K))

LongStraddle(S, sigma, r, T, K, qty) ==
    SBuilt(add_position(
               add_position(OptionsStrategy(S, sigma, r, T, "Long Straddle"),
                            "CALL", "LONG", qty, K),
               "PUT", "LONG", qty, K))

ShortStraddle(S, sigma, r, T, K, qty) ==
    SBuilt(add_position(
               add_position(OptionsStrategy(S, sigma, r, T, "Short Straddle"),
                            "CALL", "SHORT", qty, K),
               "PUT", "SHORT", qty, K))

StrangleError == invalid_argument("Put strike must be < Call strike", << >>)

\* a strangle that accepts equal strikes
LongStrangleEqualStrikes(S, sigma, r, T, K_put, K_call, qty) ==
    IF Greater(K_put, K_call) THEN SNotBuilt(StrangleError)
    ELSE SBuilt(add_position(
                    add_position(OptionsStrategy(S, sigma, r, T, "Long Strangle"),
                                 "PUT", "LONG", qty, K_put),
                    "CALL", "LONG", qty, K_call))

LongStrangle(S, sigma, r, T, K_put, K_call, qty) ==
    IF GreaterEq(K_put, K_call) THEN SNotBuilt(StrangleError)
    ELSE SBuilt(add_position(
                    add_position(OptionsStrategy(S, sigma, r, T, "Long Strangle"),
                                 "PUT", "LONG", qty, K_put),
                    "CALL", "LONG", qty, K_call))

ShortStrangle(S, sigma, r, T, K_put, K_call, qty) ==
    IF GreaterEq(K_put, K_call) THEN SNotBuilt(StrangleError)
    ELSE SBuilt(add_position(
                    add_position(OptionsStrategy(S, sigma, r, T, "Short Strangle"),
                                 "PUT", "SHORT", qty, K_put),
                    "CALL", "SHORT", qty, K_call))

\* ------------------------------------------------------------------------
\* the inputs a caller passes
\* ------------------------------------------------------------------------
Namespaces == {"optipricer", "optiverse"}

\* (K, sigma, r, T, S) of the repository's test
BaseArgs == <<D(100), Fin(2, -1), Fin(5, -2), D(1), D(100)>>

StrikeInputs == {D(-5), Zero, D(105), NaN, Inf(1)}

VolatilityInputs == {Fin(-1, -1), Zero, Fin(5, -11), D(10), D(11), NaN}

RateInputs == {Fin(-5, -2), D(-1000), NaN, Inf(-1)}

TimeInputs == {Zero, Fin(5, -11), Fin(25, -2), D(100), D(101), Inf(1)}

UnderlyingInputs == {Zero, D(-100), D(105), NaN}

\* arguments inside the constructor's bounds that drive intermediate results
\* out of the range of a double: K * e^(-rT) = 1e10 * e^700, and
\* S / K = 1e-400 with r * T = 1e310
ExtremeArgs ==
    {[BaseArgs EXCEPT ![1] = Fin(1, 10), ![3] = D(-7), ![4] = D(100)],
     <<Fin(1, 200), Fin(2, -1), Fin(1, 308), D(100), Fin(1, -200)>>}

\* the base arguments with one of them replaced, and two double deviations
ModelArgs ==
    {BaseArgs}
    \cup {[BaseArgs EXCEPT ![1] = v] : v \in StrikeInputs}
    \cup {[BaseArgs EXCEPT ![2] = v] : v \in VolatilityInputs}
    \cup {[BaseArgs EXCEPT ![3] = v] : v \in RateInputs}
    \cup {[BaseArgs EXCEPT ![4] = v] : v \in TimeInputs}
    \cup {[BaseArgs EXCEPT ![5] = v] : v \in UnderlyingInputs}
    \cup {[BaseArgs EXCEPT ![2] = Zero, ![3] = D(-1000)],
          [BaseArgs EXCEPT ![3] = D(-8), ![4] = D(100)]}
    \cup ExtremeArgs

\* the arguments a caller assigns a new model from
AssignArgs ==
    {[BaseArgs EXCEPT ![1] = D(105)],
     [BaseArgs EXCEPT ![2] = Zero],
     [BaseArgs EXCEPT ![1] = D(-5)]}

\* what a read through a dangling reference may find: the bytes of the
\* destroyed object, or whatever has been written over them since
DanglingReads(old) ==
    {old,
     Fields("optiverse", D(105), Fin(2, -1), Fin(5, -2), D(1), D(100)),
     Fields("optiverse", NaN, Zero, Inf(1), D(-5), Zero)}

ModelQueries == {"d1", "d2", "call_price", "put_price"}

Getters == {"get_strike_price", "get_volatility", "get_risk_free_rate",
            "get_time_to_maturity", "get_underlying_price"}

GreekQueries == {"call_delta", "put_delta", "gamma", "vega",
                 "call_theta", "put_theta", "call_rho", "put_rho"}

GetterQuery(op, m) ==
    CASE op = "get_strike_price" -> Ret(get_strike_price(m))
      [] op = "get_volatility" -> Ret(get_volatility(m))
      [] op = "get_risk_free_rate" -> Ret(get_risk_free_rate(m))
      [] op = "get_time_to_maturity" -> Ret(get_time_to_maturity(m))
      [] op = "get_underlying_price" -> Ret(get_underlying_price(m))

ModelQuery(op, m) ==
    CASE op = "d1" -> d1(m)
      [] op = "d2" -> d2(m)
      [] op = "call_price" -> call_price(m)
      [] op = "put_price" -> put_price(m)
      [] OTHER -> GetterQuery(op, m)

GreekQuery(op, m) ==
    CASE op = "call_delta" -> call_delta(m)
      [] op = "put_delta" -> put_delta(m)
      [] op = "gamma" -> gamma(m)
      [] op = "vega" -> vega(m)
      [] op = "call_theta" -> call_theta(m)
      [] op = "put_theta" -> put_theta(m)
      [] op = "call_rho" -> call_rho(m)
      [] op = "put_rho" -> put_rho(m)

\* ------------------------------------------------------------------------
\* a caller's session
\* ------------------------------------------------------------------------
VARIABLES
    model,      \* the caller's BlackScholesModel variable
    ctor_args,  \* the arguments its value was constructed from
    greeks,     \* the caller's GreeksCalculator variable
    snapshot,   \* the model the calculator was constructed from
    strategy,   \* the caller's strategy variable
    last        \* the last call and its outcome

vars == <<model, ctor_args, greeks, snapshot, strategy, last>>

NoObject == Fields("none", NoValue, NoValue, NoValue, NoValue, NoValue)

NoGreeks == [ns |-> "none", model |-> NoObject]

Last(op, out, on, args) ==
    [op |-> op, threw |-> out.threw, value |-> out.value, ex |-> out.ex,
     built |-> 0, on |-> on, args |-> args, legs |-> << >>, name |-> ""]

\* the same for a strategy query q, with the number of models it built
LastQuery(op, q, args) ==
    [op |-> op, threw |-> q.threw, value |-> q.value, ex |-> q.ex,
     built |-> q.built, on |-> Fields("none", NoValue, NoValue, NoValue,
                                      NoValue, NoValue),
     args |-> args, legs |-> << >>, name |-> ""]

Init ==
    /\ model = [status |-> "none", obj |-> NoObject]
    /\ ctor_args = << >>
    /\ greeks = NoGreeks
    /\ snapshot = NoObject
    /\ strategy = [status |-> "none", obj |-> NoStrategy]
    /\ last = Last("init", Ret(NoValue), NoObject, << >>)

\* the variable takes the object c a constructor built from a, or keeps its
\* value when the constructor threw
TakeModel(op, c, a) ==
    /\ model' = IF c.threw THEN model ELSE [status |-> "live", obj |-> c.obj]
    /\ ctor_args' = IF c.threw THEN ctor_args ELSE a
    /\ last' = Last(op, [threw |-> c.threw, value |-> NoValue, ex |-> c.ex],
                    c.obj, a)

\* BlackScholesModel model(K, sigma, r, T, S);
ConstructModel(ns, a) ==
    /\ model.status = "none"
    /\ TakeModel("BlackScholesModel",
                 BlackScholesModel(ns, a[1], a[2], a[3], a[4], a[5]), a)
    /\ UNCHANGED <<greeks, snapshot, strategy>>

\* model = BlackScholesModel(K, sigma, r, T, S);  the implicit copy assignment
AssignModel(a) ==
    /\ model.status = "live"
    /\ TakeModel("operator=",
                 BlackScholesModel(model.obj.ns, a[1], a[2], a[3], a[4], a[5]),
                 a)
    /\ UNCHANGED <<greeks, snapshot, strategy>>

\* the model variable goes out of scope
DestroyModel ==
    /\ model.status = "live"
    /\ model' = [model EXCEPT !.status = "dead"]
    /\ last' = Last("~BlackScholesModel", Ret(NoValue), model.obj, << >>)
    /\ UNCHANGED <<ctor_args, greeks, snapshot, strategy>>

\* model.d1(), model.d2(), model.call_price(), model.put_price(), model.get_*()
QueryModel(op) ==
    /\ model.status = "live"
    /\ last' = Last(op, ModelQuery(op, model.obj), model.obj, << >>)
    /\ UNCHANGED <<model, ctor_args, greeks, snapshot, strategy>>

\* GreeksCalculator greeks(model);
ConstructGreeks ==
    /\ model.status = "live"
    /\ greeks.ns = "none"
    /\ greeks' = GreeksCalculator(model.obj)
    /\ snapshot' = model.obj
    /\ last' = Last("GreeksCalculator", Ret(NoValue), model.obj, << >>)
    /\ UNCHANGED <<model, ctor_args, strategy>>

\* greeks.call_delta(), ...: a reference member whose referent is gone reads
\* whatever lies there
QueryGreeks(op) ==
    /\ greeks.ns # "none"
    /\ \E m \in (IF greeks.model # Reference THEN {greeks.model}
                 ELSE IF model.status = "live" THEN {model.obj}
                 ELSE DanglingReads(model.obj)) :
           last' = Last(op, GreekQuery(op, m), m, << >>)
    /\ UNCHANGED <<model, ctor_args, greeks, snapshot, strategy>>

Next ==
    \/ \E ns \in Namespaces, a \in ModelArgs : ConstructModel(ns, a)
    \/ \E a \in AssignArgs : AssignModel(a)
    \/ DestroyModel
    \/ \E op \in ModelQueries \cup Getters : QueryModel(op)
    \/ ConstructGreeks
    \/ \E op \in GreekQueries : QueryGreeks(op)

Spec == Init /\ [][Next]_vars

\* ------------------------------------------------------------------------
\* a caller's session with a strategy
\* ------------------------------------------------------------------------
MaxLegs == 2

\* (S, sigma, r, T): the test's market, no volatility, a discount factor that
\* overflows, a NaN volatility
MarketContexts ==
    {<<D(100), Fin(2, -1), Fin(5, -2), D(1)>>,
     <<D(100), Zero, Fin(5, -2), D(1)>>,
     <<D(100), Fin(2, -1), D(-1000), D(1)>>,
     <<D(100), NaN, Fin(5, -2), D(1)>>}

Strikes == {D(100), D(110), D(-5)}

Quantities == {D(1), D(-2)}

SpotsAtExpiry == {D(90), D(110)}

\* the legs a caller adds
LegInputs ==
    {Position("CALL", "LONG", D(1), D(100)),
     Position("CALL", "SHORT", D(1), D(110)),
     Position("PUT", "LONG", D(-2), D(100)),
     Position("PUT", "SHORT", D(1), D(110)),
     Position("CALL", "LONG", D(1), D(-5)),
     Position("PUT", "SHORT", Zero, Zero)}

SingleStrike == {"LongCall", "ShortCall", "LongPut", "ShortPut",
                 "LongStraddle", "ShortStraddle"}

Strangles == {"LongStrangle", "ShortStrangle"}

StrategyCtor(kind, c, K, K2, qty) ==
    CASE kind = "OptionsStrategy" ->
             SBuilt(OptionsStrategy(c[1], c[2], c[3], c[4], "Custom"))
      [] kind = "LongCall" -> LongCall(c[1], c[2], c[3], c[4], K, qty)
      [] kind = "ShortCall" -> ShortCall(c[1], c[2], c[3], c[4], K, qty)
      [] kind = "LongPut" -> LongPut(c[1], c[2], c[3], c[4], K, qty)
      [] kind = "ShortPut" -> ShortPut(c[1], c[2], c[3], c[4], K, qty)
      [] kind = "LongStraddle" -> LongStraddle(c[1], c[2], c[3], c[4], K, qty)
      [] kind = "ShortStraddle" -> ShortStraddle(c[1], c[2], c[3], c[4], K, qty)
      [] kind = "LongStrangle" ->
             LongStrangle(c[1], c[2], c[3], c[4], K, K2, qty)
      [] kind = "ShortStrangle" ->
             ShortStrangle(c[1], c[2], c[3], c[4], K, K2, qty)

\* the variable takes the strategy b a constructor built, or keeps its value
\* when the constructor threw
TakeStrategy(kind, b, args) ==
    /\ strategy' = IF b.threw THEN strategy ELSE [status |-> "live", obj |-> b.obj]
    /\ last' = Last(kind, [threw |-> b.threw, value |-> NoValue, ex |-> b.ex],
                    NoObject, args)

\* OptionsStrategy s(S, sigma, r, T, name);  LongCall s(S, sigma, r, T, K, qty);
\* ...  LongStrangle s(S, sigma, r, T, K_put, K_call, qty);
ConstructStrategy(kind, c, K, K2, qty) ==
    /\ strategy.status = "none"
    /\ TakeStrategy(kind, StrategyCtor(kind, c, K, K2, qty),
                    <<c[1], c[2], c[3], c[4], K, K2, qty>>)
    /\ UNCHANGED <<model, ctor_args, greeks, snapshot>>

\* s.add_position(opt_type, pos_type, qty, strike);
AddPosition(leg) ==
    /\ strategy.status = "live"
    /\ Len(strategy.obj.positions) < MaxLegs
    /\ strategy' = [strategy EXCEPT !.obj =
                        add_position(@, leg.option_type, leg.position_type,
                                     leg.quantity, leg.strike)]
    /\ last' = [Last("add_position", Ret(NoValue), NoObject,
                     <<leg.quantity, leg.strike>>)
                   EXCEPT !.legs = <<leg>>]
    /\ UNCHANGED <<model, ctor_args, greeks, snapshot>>

\* s.total_value();
TotalValue ==
    /\ strategy.status = "live"
    /\ last' = LastQuery("total_value", total_value(strategy.obj), << >>)
    /\ UNCHANGED <<model, ctor_args, greeks, snapshot, strategy>>

\* s.total_delta();
TotalDelta ==
    /\ strategy.status = "live"
    /\ last' = LastQuery("total_delta", total_delta(strategy.obj), << >>)
    /\ UNCHANGED <<model, ctor_args, greeks, snapshot, strategy>>

\* s.payoff_at_expiration(S_T);
PayoffAtExpiration(S_T) ==
    /\ strategy.status = "live"
    /\ last' = LastQuery("payoff_at_expiration",
                         payoff_at_expiration(strategy.obj, S_T), <<S_T>>)
    /\ UNCHANGED <<model, ctor_args, greeks, snapshot, strategy>>

\* s.get_positions();
GetPositions ==
    /\ strategy.status = "live"
    /\ last' = [Last("get_positions", Ret(NoValue), NoObject, << >>)
                   EXCEPT !.legs = get_positions(strategy.obj)]
    /\ UNCHANGED <<model, ctor_args, greeks, snapshot, strategy>>

\* s.get_name();
GetName ==
    /\ strategy.status = "live"
    /\ last' = [Last("get_name", Ret(NoValue), NoObject, << >>)
                   EXCEPT !.name = get_name(strategy.obj)]
    /\ UNCHANGED <<model, ctor_args, greeks, snapshot, strategy>>

StrategyNext ==
    \/ \E kind \in {"OptionsStrategy"} \cup SingleStrike \cup Strangles,
          c \in MarketContexts, K \in Strikes, K2 \in Strikes,
          qty \in Quantities :
           ConstructStrategy(kind, c, K, K2, qty)
    \/ \E leg \in LegInputs : AddPosition(leg)
    \/ TotalValue
    \/ TotalDelta
    \/ \E S_T \in SpotsAtExpiry : PayoffAtExpiration(S_T)
    \/ GetPositions
    \/ GetName

StrategySpec == Init /\ [][StrategyNext]_vars

\* ------------------------------------------------------------------------
\* a strategy of several legs and its valuations
\* ------------------------------------------------------------------------
PermLegs == 3

\* the legs of a spread: calls and puts around the money, long and short
SpreadLegs ==
    {Position("CALL", "LONG", D(1), D(100)),
     Position("CALL", "SHORT", D(1), D(110)),
     Position("PUT", "LONG", D(2), D(100)),
     Position("PUT", "SHORT", D(3), D(90)),
     Position("CALL", "LONG", D(1), D(-5))}

\* s.add_position(...) for each of the first n legs, in their order
RECURSIVE AddPositions(_, _, _)
AddPositions(st, legs, n) ==
    IF n = 0 THEN st
    ELSE add_position(AddPositions(st, legs, n - 1), legs[n].option_type,
                      legs[n].position_type, legs[n].quantity, legs[n].strike)

\* OptionsStrategy s(100, 0.2, 0.05, 1, "Custom") after PermLegs add_position
\* calls
SpreadInit ==
    /\ model = [status |-> "none", obj |-> NoObject]
    /\ ctor_args = << >>
    /\ greeks = NoGreeks
    /\ snapshot = NoObject
    /\ \E legs \in [1..PermLegs -> SpreadLegs] :
           /\ strategy =
                  [status |-> "live",
                   obj |-> AddPositions(
                               OptionsStrategy(D(100), Fin(2, -1), Fin(5, -2),
                                               D(1), "Custom"),
                               legs, PermLegs)]
           /\ last = [Last("add_position", Ret(NoValue), NoObject,
                           <<legs[PermLegs].quantity, legs[PermLegs].strike>>)
                         EXCEPT !.legs = <<legs[PermLegs]>>]

SpreadNext ==
    \/ TotalValue
    \/ TotalDelta
    \/ \E S_T \in SpotsAtExpiry : PayoffAtExpiration(S_T)

SpreadSpec == SpreadInit /\ [][SpreadNext]_vars

\* ------------------------------------------------------------------------
\* the error kinds and failure conditions the specification names
\* ------------------------------------------------------------------------
NonFinite(x) == x.c \in {"nan", "inf"}

\* what a catch clause, and the exception translator of the bindings, match on
CaughtAs(x) == x.type

IsInvalidParameter(x) == CaughtAs(x) = "invalid_argument"

IsDegenerateInput(x) ==
    /\ CaughtAs(x) = "runtime_error"
    /\ x.what[Len(x.what)] = DegenerateError.what[1]

IsNumericOverflow(x) ==
    /\ CaughtAs(x) = "runtime_error"
    /\ x.what[Len(x.what)] = DiscountFactorError.what[1]

\* K <= 0, sigma < 0, sigma > 1000%, T <= 0, T > 100 years, S <= 0, or a
\* value that is not finite
InvalidParameters(K, sigma, r, T, S) ==
    \/ LessEq(K, Zero)
    \/ Less(sigma, Zero) \/ Greater(sigma, D(10))
    \/ LessEq(T, Zero) \/ Greater(T, D(100))
    \/ LessEq(S, Zero)
    \/ NonFinite(K) \/ NonFinite(sigma) \/ NonFinite(r) \/ NonFinite(T)
    \/ NonFinite(S)

InvalidModel(m) ==
    InvalidParameters(m.strike_price, m.volatility, m.risk_free_rate,
                      m.time_to_maturity, m.underlying_price)

\* sigma or T below the floor 1e-10
BelowFloor(sigma, T) == Less(sigma, Fin(1, -10)) \/ Less(T, Fin(1, -10))

\* e^(-rT) is not finite
DiscountOverflows(r, T) == NonFinite(std_exp(Mul(Neg(r), T)))

Outcome(l) == [threw |-> l.threw, value |-> l.value, ex |-> l.ex]

\* ------------------------------------------------------------------------
\* C1..C10
\* ------------------------------------------------------------------------

\* C1: constructing a Pricing Model from arguments with K <= 0, sigma < 0,
\* sigma > 10, T <= 0, T > 100, S <= 0 or a non-finite value fails with
\* InvalidParameter, and no model object with such parameters ever exists.
C1_InvalidParametersRejected ==
    /\ (last.op \in {"BlackScholesModel", "operator="}
        /\ InvalidParameters(last.args[1], last.args[2], last.args[3],
                             last.args[4], last.args[5]))
       => (last.threw /\ IsInvalidParameter(last.ex))
    /\ model.status = "live" => ~InvalidModel(model.obj)

\* C2: on every model with parameters inside the constructor's bounds d1()
\* fails with DegenerateInput when sigma or T is below 1e-10 and returns a
\* value otherwise; d2() fails exactly when d1() fails, with the same kind,
\* and otherwise returns d1() - sigma*sqrt(T).
C2_D1FailsBelowFloor ==
    /\ (last.op = "d1" /\ ~InvalidModel(last.on)) =>
          IF BelowFloor(last.on.volatility, last.on.time_to_maturity)
          THEN last.threw /\ IsDegenerateInput(last.ex)
          ELSE ~last.threw /\ last.value.c # "none"
    /\ (last.op = "d2" /\ ~InvalidModel(last.on)) =>
          IF BelowFloor(last.on.volatility, last.on.time_to_maturity)
          THEN last.threw /\ IsDegenerateInput(last.ex)
          ELSE /\ ~last.threw
               /\ last.value = Sub(d1(last.on).value,
                                   Mul(last.on.volatility,
                                       std_sqrt(last.on.time_to_maturity)))

\* C3: call_price() and put_price() fail with NumericOverflow whenever the
\* discount factor e^(-rT) is not finite, and never return a value computed
\* from such a discount factor (stated for the models the constructor's
\* bounds admit and on which sigma and T are not below the floor).
C3_PriceFailsOnOverflow ==
    (last.op \in {"call_price", "put_price"}
     /\ ~InvalidModel(last.on)
     /\ ~BelowFloor(last.on.volatility, last.on.time_to_maturity)
     /\ DiscountOverflows(last.on.risk_free_rate, last.on.time_to_maturity))
    => (last.threw /\ IsNumericOverflow(last.ex))

\* C4: on a model with parameters inside the constructor's bounds, each of
\* the eight Greeks fails with DegenerateInput when sigma or T is below the
\* floor, and call_theta, put_theta, call_rho and put_rho fail with
\* NumericOverflow when the discount factor they use is not finite.
C4_GreeksPropagateFailures ==
    /\ (last.op \in GreekQueries
        /\ ~InvalidModel(last.on)
        /\ BelowFloor(last.on.volatility, last.on.time_to_maturity))
       => (last.threw /\ IsDegenerateInput(last.ex))
    /\ (last.op \in {"call_theta", "put_theta", "call_rho", "put_rho"}
        /\ ~InvalidModel(last.on)
        /\ ~BelowFloor(last.on.volatility, last.on.time_to_maturity)
        /\ DiscountOverflows(last.on.risk_free_rate, last.on.time_to_maturity))
       => (last.threw /\ IsNumericOverflow(last.ex))

\* C5: every failure reaches the caller as one of three kinds it can tell
\* apart; a DegenerateInput failure raised by d1() inside call_price() or
\* put_price() reaches the caller as an outcome it can tell apart from the
\* NumericOverflow failure of the discount-factor check.
C5_KindsDistinguishable ==
    /\ last.threw => \/ IsInvalidParameter(last.ex)
                     \/ IsDegenerateInput(last.ex)
                     \/ IsNumericOverflow(last.ex)
    /\ (last.op \in {"call_price", "put_price"}
        /\ last.threw
        /\ IsDegenerateInput(last.ex))
       => CaughtAs(last.ex) # CaughtAs(DiscountFactorError)

\* what the specification makes of a leg: its model cannot be constructed, or
\* its price or delta cannot be computed
LegFails(st, pos, op) ==
    \/ InvalidParameters(pos.strike, st.volatility, st.risk_free_rate,
                         st.time_to_maturity, st.underlying_price)
    \/ BelowFloor(st.volatility, st.time_to_maturity)
    \/ (op = "total_value"
        /\ DiscountOverflows(st.risk_free_rate, st.time_to_maturity))

\* C6: total_value() and total_delta() fail whenever model construction or
\* pricing fails for any leg, and return no partial sum.
C6_AggregationFails ==
    (last.op \in {"total_value", "total_delta"}
     /\ \E i \in 1..Len(strategy.obj.positions) :
            LegFails(strategy.obj, strategy.obj.positions[i], last.op))
    => (last.threw /\ last.value.c = "none")

\* C7: payoff_at_expiration(S_T) never fails and never constructs a Pricing
\* Model: it returns a value for every strategy and every S_T, also when the
\* market context or a strike is one the Pricing Model rejects.
C7_PayoffNeverFails ==
    last.op = "payoff_at_expiration"
    => (~last.threw /\ last.value.c # "none" /\ last.built = 0)

C7_Witness ==
    /\ last.op = "payoff_at_expiration"
    /\ ~last.threw
    /\ \E i \in 1..Len(strategy.obj.positions) :
           LegFails(strategy.obj, strategy.obj.positions[i], "total_value")

\* C8: a strangle constructor fails with InvalidParameter when
\* put_strike >= call_strike and leaves no strategy and no leg; when
\* put_strike < call_strike it succeeds with exactly two legs, a put at
\* put_strike followed by a call at call_strike.
C8_StrangleOrdering ==
    last.op \in Strangles =>
        LET K_put == last.args[5]
            K_call == last.args[6]
            qty == last.args[7]
            dir == IF last.op = "LongStrangle" THEN "LONG" ELSE "SHORT"
        IN  /\ GreaterEq(K_put, K_call) =>
                  /\ last.threw
                  /\ IsInvalidParameter(last.ex)
                  /\ strategy.status = "none"
            /\ Less(K_put, K_call) =>
                  /\ ~last.threw
                  /\ strategy.status = "live"
                  /\ get_positions(strategy.obj)
                       = <<Position("PUT", dir, qty, K_put),
                           Position("CALL", dir, qty, K_call)>>

C8_Witness ==
    /\ last.op \in Strangles
    /\ Equal(last.args[5], last.args[6])
    /\ last.threw
    /\ strategy.status = "none"

\* C9: a Greeks Calculator holds its own copy of the model: whatever happens
\* to the model it was built from, every Greek it returns is the Greek of the
\* model as it was when the calculator was built.
C9_CalculatorOwnsSnapshot ==
    last.op \in GreekQueries => Outcome(last) = GreekQuery(last.op, snapshot)

\* C10: a Pricing Model is immutable after construction: after any d1, d2,
\* call_price, put_price or accessor call, succeeding or failing, the five
\* accessors return exactly the values passed to the constructor.
C10_ModelImmutable ==
    last.op \in ModelQueries \cup Getters =>
        /\ model.status = "live"
        /\ get_strike_price(model.obj) = ctor_args[1]
        /\ get_volatility(model.obj) = ctor_args[2]
        /\ get_risk_free_rate(model.obj) = ctor_args[3]
        /\ get_time_to_maturity(model.obj) = ctor_args[4]
        /\ get_underlying_price(model.obj) = ctor_args[5]
        /\ last.op \in Getters => last.value = GetterQuery(last.op, last.on).value
        /\ last.on = model.obj

C10_Witness ==
    /\ last.op \in {"call_price", "put_price"}
    /\ last.threw
    /\ model.status = "live"
    /\ get_time_to_maturity(model.obj) = ctor_args[4]
    /\ ctor_args[4] # ctor_args[5]

\* ------------------------------------------------------------------------
\* C11..C20
\* ------------------------------------------------------------------------
StrategyQueries == {"total_value", "total_delta", "payoff_at_expiration",
                    "get_positions", "get_name"}

\* C11: the leg sequence is append-only: add_position appends exactly the leg
\* it was called with, after the legs already there; no query (total_value,
\* total_delta, payoff_at_expiration, get_positions, get_name) changes the
\* strategy; get_positions returns the legs in insertion order.
C11_LegsAppendOnly ==
    [][/\ last'.op \in StrategyQueries => strategy' = strategy
       /\ last'.op = "get_positions" =>
              last'.legs = strategy.obj.positions
       /\ last'.op = "add_position" =>
              /\ Len(last'.legs) = 1
              /\ strategy'.obj.positions
                   = Append(strategy.obj.positions, last'.legs[1])
              /\ strategy'.obj
                   = [strategy.obj EXCEPT !.positions = strategy'.obj.positions]
      ]_vars

C11_Witness ==
    /\ last.op = "get_positions"
    /\ Len(last.legs) = 2
    /\ last.legs[1] # last.legs[2]
    /\ last.legs = get_positions(strategy.obj)

\* +1 for LONG, -1 for SHORT
DirectionSign(pos) == IF pos.position_type = "LONG" THEN D(1) ELSE D(-1)

\* the Pricing Model of a leg: the strategy's (S, sigma, r, T), the leg's strike
PricingModel(st, pos) ==
    Fields("optipricer", pos.strike, st.volatility, st.risk_free_rate,
           st.time_to_maturity, st.underlying_price)

\* call_price() for a CALL leg, put_price() for a PUT leg
LegPrice(st, pos) ==
    IF pos.option_type = "CALL"
    THEN optipricer_call_price(PricingModel(st, pos)).value
    ELSE optipricer_put_price(PricingModel(st, pos)).value

\* the sum over the first n legs of sign * quantity * price
RECURSIVE SumOfPrices(_, _)
SumOfPrices(st, n) ==
    IF n = 0 THEN Zero
    ELSE Add(SumOfPrices(st, n - 1),
             Mul(Mul(DirectionSign(st.positions[n]), st.positions[n].quantity),
                 LegPrice(st, st.positions[n])))

\* every leg of the strategy can be priced
EveryLegPrices(st) ==
    \A i \in 1..Len(st.positions) :
        ~LegFails(st, st.positions[i], "total_value")

\* C12: when every leg prices successfully, total_value() returns the sum over
\* the legs of (+1 for LONG, -1 for SHORT) * quantity * price, the price being
\* call_price() or put_price() of a model built from the strategy's
\* (S, sigma, r, T) and the leg's strike.
C12_TotalValueIsSignedSum ==
    (last.op = "total_value" /\ EveryLegPrices(strategy.obj))
    => /\ ~last.threw
       /\ last.value = SumOfPrices(strategy.obj, Len(strategy.obj.positions))

C12_Witness ==
    /\ last.op = "total_value"
    /\ EveryLegPrices(strategy.obj)
    /\ Len(strategy.obj.positions) = 2
    /\ strategy.obj.positions[1].position_type = "LONG"
    /\ strategy.obj.positions[2].position_type = "SHORT"
    /\ strategy.obj.positions[1].quantity = D(-2)
    /\ IsFinite(last.value)
    /\ last.value # Zero

\* max(S_T - K, 0) for a call, max(K - S_T, 0) for a put
IntrinsicValue(pos, S_T) ==
    IF pos.option_type = "CALL"
    THEN (IF Greater(S_T, pos.strike) THEN Sub(S_T, pos.strike) ELSE Zero)
    ELSE (IF Greater(pos.strike, S_T) THEN Sub(pos.strike, S_T) ELSE Zero)

\* the sum over the first n legs of sign * quantity * intrinsic value
RECURSIVE SumOfPayoffs(_, _, _)
SumOfPayoffs(st, S_T, n) ==
    IF n = 0 THEN Zero
    ELSE Add(SumOfPayoffs(st, S_T, n - 1),
             Mul(Mul(DirectionSign(st.positions[n]), st.positions[n].quantity),
                 IntrinsicValue(st.positions[n], S_T)))

\* a Long Call struck at 100 with quantity 1, as its constructor leaves it
IsLongCall100(st) ==
    /\ get_name(st) = "Long Call"
    /\ get_positions(st) = <<Position("CALL", "LONG", D(1), D(100))>>

\* C13: payoff_at_expiration(S_T) returns the sum over the legs of
\* (+1 for LONG, -1 for SHORT) * quantity * intrinsic value; for a Long Call
\* struck at 100 with quantity 1 it is 0 at S_T = 90 and 10 at S_T = 110.
C13_PayoffIsSignedIntrinsicSum ==
    last.op = "payoff_at_expiration" =>
        /\ ~last.threw
        /\ last.value = SumOfPayoffs(strategy.obj, last.args[1],
                                     Len(strategy.obj.positions))
        /\ (IsLongCall100(strategy.obj) /\ last.args[1] = D(90))
           => last.value = Zero
        /\ (IsLongCall100(strategy.obj) /\ last.args[1] = D(110))
           => last.value = D(10)

C13_Witness ==
    /\ last.op = "payoff_at_expiration"
    /\ IsLongCall100(strategy.obj)
    /\ last.args[1] = D(110)
    /\ last.value = D(10)

\* call_delta() for a CALL leg, put_delta() for a PUT leg
LegDeltaValue(st, pos) ==
    IF pos.option_type = "CALL" THEN call_delta(PricingModel(st, pos)).value
    ELSE put_delta(PricingModel(st, pos)).value

\* what a leg is worth to a query before the direction signs it
LegQuantityOf(op, st, pos, S_T) ==
    CASE op = "total_value" -> LegPrice(st, pos)
      [] op = "total_delta" -> LegDeltaValue(st, pos)
      [] op = "payoff_at_expiration" -> IntrinsicValue(pos, S_T)

\* quantity * value, negated for SHORT whatever the sign of the quantity
ByDirection(pos, value) ==
    IF pos.position_type = "LONG" THEN Mul(pos.quantity, value)
    ELSE Neg(Mul(pos.quantity, value))

\* C14: the long/short sign of a leg's contribution to total_value,
\* total_delta and payoff_at_expiration comes from the leg's direction, not
\* from the sign of its quantity: a one-leg strategy is worth
\* quantity * value when LONG and -(quantity * value) when SHORT, for
\* positive and negative quantities alike.
C14_SignByDirection ==
    (/\ last.op \in {"total_value", "total_delta", "payoff_at_expiration"}
     /\ Len(strategy.obj.positions) = 1
     /\ EveryLegPrices(strategy.obj))
    => last.value
         = ByDirection(strategy.obj.positions[1],
                       LegQuantityOf(last.op, strategy.obj,
                                     strategy.obj.positions[1],
                                     IF last.op = "payoff_at_expiration"
                                     THEN last.args[1] ELSE Zero))

C14_Witness ==
    /\ last.op = "total_delta"
    /\ Len(strategy.obj.positions) = 1
    /\ EveryLegPrices(strategy.obj)
    /\ strategy.obj.positions[1].position_type = "SHORT"
    /\ strategy.obj.positions[1].option_type = "CALL"
    /\ Less(strategy.obj.positions[1].quantity, Zero)
    /\ Greater(last.value, Zero)

\* the strategy with its legs in the order p, a permutation of 1..Len
Reordered(st, p) ==
    [st EXCEPT !.positions = [i \in 1..Len(st.positions) |-> st.positions[p[i]]]]

\* a valuation of the strategy st
Valuation(op, st, S_T) ==
    CASE op = "total_value" -> Outcome(total_value(st))
      [] op = "total_delta" -> Outcome(total_delta(st))
      [] op = "payoff_at_expiration" -> Outcome(payoff_at_expiration(st, S_T))

\* C15: the order of the legs is not significant for valuation: a strategy
\* with the same market context and the same legs in any other order gives
\* the same outcome of total_value(), total_delta() and
\* payoff_at_expiration(S_T): the same value or the same error.
C15_OrderInsignificant ==
    last.op \in {"total_value", "total_delta", "payoff_at_expiration"} =>
        \A p \in Permutations(1..Len(strategy.obj.positions)) :
            Valuation(last.op, Reordered(strategy.obj, p),
                      IF last.op = "payoff_at_expiration"
                      THEN last.args[1] ELSE Zero)
              = Outcome(last)

\* the strategy is as the constructor called `name` left it, with n legs
BuiltAs(st, name, n) == get_name(st) = name /\ Len(get_positions(st)) = n

\* LongCall(S, sigma, r, T, K, qty).total_value() with the parameters of st
LongCallValue(st) ==
    total_value(LongCall(st.underlying_price, st.volatility,
                         st.risk_free_rate, st.time_to_maturity,
                         st.positions[1].strike, st.positions[1].quantity).obj)

\* short == -long, and one fails exactly when the other does
ShortNegatesLong(short, long) ==
    /\ short.threw = long.threw
    /\ ~short.threw => Equal(short.value, Neg(long.value))

\* C16: for identical (S, sigma, r, T, K) and quantity,
\* ShortCall.total_value() == -LongCall.total_value(), and one fails exactly
\* when the other does.
C16_ShortCallNegatesLongCall ==
    (last.op = "total_value" /\ BuiltAs(strategy.obj, "Short Call", 1))
    => ShortNegatesLong(last, LongCallValue(strategy.obj))

\* LongPut(S, sigma, r, T, K, qty).total_value() with the parameters of st
LongPutValue(st) ==
    total_value(LongPut(st.underlying_price, st.volatility,
                        st.risk_free_rate, st.time_to_maturity,
                        st.positions[1].strike, st.positions[1].quantity).obj)

\* straddle == call + put, and the straddle fails exactly when one of them does
StraddleDecomposes(straddle, call, put) ==
    /\ straddle.threw = (call.threw \/ put.threw)
    /\ ~straddle.threw => Equal(straddle.value, Add(call.value, put.value))

\* C17: for identical (S, sigma, r, T, K) and quantity,
\* LongStraddle.total_value() == LongCall.total_value() + LongPut.total_value().
C17_StraddleDecomposes ==
    (last.op = "total_value" /\ BuiltAs(strategy.obj, "Long Straddle", 2))
    => StraddleDecomposes(last, LongCallValue(strategy.obj),
                          LongPutValue(strategy.obj))

\* call_delta - put_delta == 1 and -1 <= put_delta <= 0
DeltaIdentity(cd, pd) ==
    /\ ~cd.threw /\ ~pd.threw
    /\ Equal(Sub(cd.value, pd.value), D(1))
    /\ LessEq(D(-1), pd.value)
    /\ LessEq(pd.value, Zero)

\* C18: for every model with parameters inside the constructor's bounds on
\* which d1() succeeds, call_delta() - put_delta() == 1 and put_delta() lies
\* in [-1, 0].
C18_DeltaIdentity ==
    (last.op \in {"call_delta", "put_delta"} /\ ~last.threw
     /\ ~InvalidModel(last.on))
    => DeltaIdentity(call_delta(last.on), put_delta(last.on))

\* the tolerance of the parity check in four-digit arithmetic; 1e-9 implies it
ParityTolerance == Fin(2, -2)

AbsDouble(x) == IF x.m < 0 THEN Neg(x) ELSE x

\* |(call - put) - (S - K e^(-rT))| <= tolerance * (S + K e^(-rT))
Parity(call, put, S, Kdf) ==
    /\ ~call.threw /\ ~put.threw
    /\ LessEq(AbsDouble(Sub(Sub(call.value, put.value), Sub(S, Kdf))),
              Mul(ParityTolerance, Add(S, Kdf)))

\* C19: put-call parity: for every valid (K, sigma, r, T, S) on which pricing
\* succeeds (sigma and T not below the floor, a finite discount factor),
\* call_price() - put_price() equals S - K e^(-rT) within the
\* tolerance (taken relative to S + K e^(-rT), which bounds |S - K e^(-rT)|,
\* and as wide as the arithmetic of the model needs).
C19_PutCallParity ==
    (last.op \in {"call_price", "put_price"} /\ ~last.threw
     /\ ~InvalidModel(last.on)
     /\ ~BelowFloor(last.on.volatility, last.on.time_to_maturity)
     /\ ~DiscountOverflows(last.on.risk_free_rate, last.on.time_to_maturity))
    => Parity(call_price(last.on), put_price(last.on),
              last.on.underlying_price,
              Mul(last.on.strike_price, discount(last.on)))

\* a second model built from the arguments the first was built from
BuiltAgain(m, a) == BlackScholesModel(m.ns, a[1], a[2], a[3], a[4], a[5]).obj

\* C20: every query is deterministic and uncached: a query repeated on a
\* model or calculator whose state has not changed gives the outcome it gave
\* before, and a model built from equal arguments gives an equal outcome.
C20_QueriesRepeatable ==
    [][/\ (last'.op = last.op
           /\ last.op \in ModelQueries \cup Getters \cup GreekQueries
           /\ UNCHANGED <<model, ctor_args, greeks, snapshot, strategy>>)
          => Outcome(last') = Outcome(last)
       /\ last'.op \in ModelQueries \cup Getters
          => Outcome(last')
               = ModelQuery(last'.op, BuiltAgain(model'.obj, ctor_args'))
      ]_vars

\* ------------------------------------------------------------------------
\* C21..C26
\* ------------------------------------------------------------------------

\* a constructor call with arguments inside the bounds returned an object
\* holding exactly these arguments
ConstructedFrom(l, m) ==
    /\ ~l.threw
    /\ m.status = "live"
    /\ m.obj = Fields(m.obj.ns, l.args[1], l.args[2], l.args[3], l.args[4],
                      l.args[5])

\* C21: construction of a Pricing Model succeeds for every input inside the
\* bounds, the boundary values sigma = 0, sigma = 10, T = 100 and any finite
\* r included; a model with sigma or T below 1e-10 is therefore constructible,
\* and each of its d1, d2, call_price and put_price queries fails with
\* DegenerateInput.
C21_BoundaryModelsConstructible ==
    /\ (last.op \in {"BlackScholesModel", "operator="}
        /\ ~InvalidParameters(last.args[1], last.args[2], last.args[3],
                              last.args[4], last.args[5]))
       => ConstructedFrom(last, model)
    /\ (last.op \in ModelQueries
        /\ ~InvalidModel(last.on)
        /\ BelowFloor(last.on.volatility, last.on.time_to_maturity))
       => (last.threw /\ IsDegenerateInput(last.ex))

\* a strike the Pricing Model rejects
InvalidStrike(K) == LessEq(K, Zero) \/ NonFinite(K)

HasInvalidStrike(st) ==
    \E i \in 1..Len(st.positions) : InvalidStrike(st.positions[i].strike)

\* the add_position call that was just made returned and left the legs there
\* were before it followed by the one leg it was given
AppendedOneLeg(before, after, l) ==
    /\ ~l.threw
    /\ Len(l.legs) = 1
    /\ get_positions(after) = Append(get_positions(before), l.legs[1])

\* C22: add_position never fails and validates nothing: it appends exactly
\* one leg whatever the option type, direction, quantity (zero and negative
\* included) and strike (non-positive included) are, and an invalid strike
\* shows only later, as an InvalidParameter failure of total_value() or
\* total_delta().
C22_AddLegNoValidation ==
    [][/\ last'.op = "add_position"
          => AppendedOneLeg(strategy.obj, strategy'.obj, last')
       /\ (last'.op \in {"total_value", "total_delta"}
           /\ HasInvalidStrike(strategy'.obj))
          => (last'.threw /\ IsInvalidParameter(last'.ex))]_vars

\* the legs a named strategy stands for, in their order
CanonicalLegs(kind, K, qty) ==
    CASE kind = "LongCall" -> <<Position("CALL", "LONG", qty, K)>>
      [] kind = "ShortCall" -> <<Position("CALL", "SHORT", qty, K)>>
      [] kind = "LongPut" -> <<Position("PUT", "LONG", qty, K)>>
      [] kind = "ShortPut" -> <<Position("PUT", "SHORT", qty, K)>>
      [] kind = "LongStraddle" -> <<Position("CALL", "LONG", qty, K),
                                    Position("PUT", "LONG", qty, K)>>
      [] kind = "ShortStraddle" -> <<Position("CALL", "SHORT", qty, K),
                                     Position("PUT", "SHORT", qty, K)>>

\* the name a named strategy is displayed under
DisplayName(kind) ==
    CASE kind = "LongCall" -> "Long Call"
      [] kind = "ShortCall" -> "Short Call"
      [] kind = "LongPut" -> "Long Put"
      [] kind = "ShortPut" -> "Short Put"
      [] kind = "LongStraddle" -> "Long Straddle"
      [] kind = "ShortStraddle" -> "Short Straddle"

\* C23: each specialized constructor leaves exactly its canonical legs, all
\* with the given quantity: LongCall, ShortCall, LongPut and ShortPut one leg
\* of the named type and direction at K, LongStraddle and ShortStraddle a call
\* leg followed by a put leg, both at K and of the named direction; and
\* get_name() returns the display name the strategy was constructed with.
C23_CanonicalLegs ==
    [][/\ last'.op \in SingleStrike
          => /\ ~last'.threw
             /\ strategy'.status = "live"
             /\ get_positions(strategy'.obj)
                  = CanonicalLegs(last'.op, last'.args[5], last'.args[7])
             /\ get_name(strategy'.obj) = DisplayName(last'.op)
       /\ last'.op = "get_name" => last'.name = get_name(strategy.obj)
       /\ strategy.status = "live"
          => get_name(strategy'.obj) = get_name(strategy.obj)]_vars

C23_Witness ==
    /\ last.op = "LongStraddle"
    /\ ~last.threw
    /\ last.args[7] = D(-2)
    /\ get_positions(strategy.obj)
         = <<Position("CALL", "LONG", D(-2), last.args[5]),
             Position("PUT", "LONG", D(-2), last.args[5])>>
    /\ get_name(strategy.obj) = "Long Straddle"

\* a market context (S, sigma, r, T) the Pricing Model rejects with any strike
InvalidContext(S, sigma, r, T) ==
    \/ Less(sigma, Zero) \/ Greater(sigma, D(10))
    \/ LessEq(T, Zero) \/ Greater(T, D(100))
    \/ LessEq(S, Zero)
    \/ NonFinite(S) \/ NonFinite(sigma) \/ NonFinite(r) \/ NonFinite(T)

\* the constructor call returned a strategy that holds the context it was given
HoldsContext(l, s) ==
    /\ ~l.threw
    /\ s.status = "live"
    /\ s.obj.underlying_price = l.args[1]
    /\ s.obj.volatility = l.args[2]
    /\ s.obj.risk_free_rate = l.args[3]
    /\ s.obj.time_to_maturity = l.args[4]

\* C24: constructing a strategy never validates the market context: apart
\* from the ordering check of the strangles, construction succeeds for any
\* (S, sigma, r, T), values a Pricing Model rejects included, and the
\* InvalidParameter failure appears at every later total_value() or
\* total_delta() call on a strategy with at least one leg.
C24_ContextNotValidated ==
    /\ last.op \in {"OptionsStrategy"} \cup SingleStrike
       => HoldsContext(last, strategy)
    /\ (last.op \in Strangles /\ Less(last.args[5], last.args[6]))
       => HoldsContext(last, strategy)
    /\ (last.op \in {"total_value", "total_delta"}
        /\ Len(strategy.obj.positions) >= 1
        /\ InvalidContext(strategy.obj.underlying_price,
                          strategy.obj.volatility,
                          strategy.obj.risk_free_rate,
                          strategy.obj.time_to_maturity))
       => (last.threw /\ IsInvalidParameter(last.ex))

\* C25: on a strategy with no legs total_value(), total_delta() and
\* payoff_at_expiration(S_T) return 0 and never fail, whatever the market
\* context is, and construct no Pricing Model.
C25_EmptyStrategyIsZero ==
    (last.op \in {"total_value", "total_delta", "payoff_at_expiration"}
     /\ Len(get_positions(strategy.obj)) = 0)
    => (~last.threw /\ last.value = Zero /\ last.built = 0)

C25_Witness ==
    /\ last.op = "total_delta"
    /\ strategy.status = "live"
    /\ Len(get_positions(strategy.obj)) = 0
    /\ std_isnan(strategy.obj.volatility)
    /\ last.value = Zero

\* C26: in call_price() and put_price() the degenerate-input check of d1()
\* runs before the discount factor is computed: on a model whose sigma or T
\* is below the floor and whose discount factor is not finite, the failure
\* reported is DegenerateInput, not NumericOverflow.
C26_DegenerateBeforeOverflow ==
    (last.op \in {"call_price", "put_price"}
     /\ ~InvalidModel(last.on)
     /\ BelowFloor(last.on.volatility, last.on.time_to_maturity)
     /\ DiscountOverflows(last.on.risk_free_rate, last.on.time_to_maturity))
    => (/\ last.threw
        /\ IsDegenerateInput(last.ex)
        /\ ~IsNumericOverflow(last.ex))

====
